---- MODULE Spec2Model ----
(***************************************************************************)
(* Model of gmqtt/mqtt/protocol.py: the frame decoder (_read_packet), the  *)
(* read loop task (_read_loop), the connection lifecycle (connection_made, *)
(* connection_lost) and the send side (write_data and the send_* family).  *)
(*                                                                         *)
(* The specifications of the module:                                       *)
(*   DecSpec    one _read_packet call on an arbitrary bounded buffer       *)
(*   MalformedSpec  one _read_packet call on frames followed by a length   *)
(*              field of five bytes                                        *)
(*   SizeSpec   one _read_packet call on one frame whose remaining length  *)
(*              is at an edge of the 1 to 4 byte encodings                 *)
(*   ChunkSpec  a well-formed stream fed to the decode/trim steps of the   *)
(*              read loop in arbitrary chunks, next to one whole call      *)
(*   Spec       the protocol object, its tasks and its transports          *)
(*   FairSpec   Spec with weak fairness on the steps of the read loop task *)
(*   SendSpec   the protocol object, its transports and the send side      *)
(*   GateSpec   the lifecycle calls with set_connection, three connections *)
(***************************************************************************)
EXTENDS Integers, Sequences, FiniteSets, TLC

VARIABLES
    data,       \* DecSpec/ChunkSpec: the bytes handed to the decoder
    res,        \* DecSpec/ChunkSpec: result of one _read_packet(data) call
    fed,        \* ChunkSpec: number of bytes of data already delivered in chunks
    buf,        \* ChunkSpec: the accumulation buffer of the loop (local buf)
    out,        \* ChunkSpec: packets emitted by the chunked passes, in order
    last,       \* ChunkSpec: value returned by the latest chunked pass
    split,      \* ChunkSpec: some pass left a partial frame in the buffer
    pad,        \* SizeSpec: number of payload bytes that follow data in the
                \* buffer; _read_packet reads none of them, so they are counted
                \* and not held
    _connection,        \* self._connection: 0 for None, else an index of transports
    _connected,         \* self._connected, the asyncio.Event: TRUE when set
    _queue,             \* self._queue: the queue object (id) and what it holds
    _read_loop_future,  \* self._read_loop_future: 0 for None, else an index of tasks
    tasks,              \* the _read_loop tasks created so far
    transports,         \* the connection objects handed to connection_made so far
    events,             \* the last two calls among connection_made ("made"),
                        \* connection_lost ("lost") and set_connection ("set")
    lost,               \* number of connection_lost calls made
    sends               \* the send operations called so far, in call order

decVars == <<data, res, fed, buf, out, last, split, pad>>
lifeVars == <<_connection, _connected, _queue, _read_loop_future, tasks,
              transports, events, lost, sends>>
vars == <<decVars, lifeVars>>

(***************************************************************************)
(* Bounds                                                                  *)
(***************************************************************************)
MaxLen == 7        \* DecSpec: longest buffer handed to _read_packet
MaxConns == 2      \* Spec: most connection objects handed to connection_made
MaxLost == 2       \* Spec: most connection_lost calls
MaxWire == 6       \* Spec: most bytes the transports return in total
MaxChunk == 3      \* Spec: most bytes one transport read returns
MaxSends == 2      \* SendSpec: most send operations called
MaxStream == 6     \* ChunkSpec: longest stream drawn from Bytes
LongPayload == 128 \* ChunkSpec: payload size of the one long frame (2 length bytes)

\* The byte values the model draws from: 0x00, 0x01, 0x02 (no continuation
\* bit), 0x80, 0x81 (continuation bit with data bits 0 and 1).
Bytes == {0, 1, 2, 128, 129}

\* The byte values the transports of Spec return.
WireBytes == {0, 128}

\* MQTTCommands.DISCONNECT
DISCONNECT == 224

SeqsUpTo(S, n) == UNION {[1..k -> S] : k \in 0..n}

(***************************************************************************)
(* _read_packet                                                            *)
(***************************************************************************)
\* payload_byte & 0x7F
DataBits(b) == b % 128
\* payload_byte & 128 == 0   (Python: & binds tighter than ==)
NoContinuation(b) == (b \div 128) % 2 = 0

\* The inner "extract payload size" loop.  The result says how the loop was
\* left: by a return statement (kind "return", val the returned value) or by
\* one of its two breaks (kind "break", with header_size and payload_size).
\* data is indexed from 0 in the source and from 1 here.
\* ReadLength with the "not full header" return counting the bytes of the
\* partial header as parsed.
RECURSIVE ReadLengthEatsHeader(_, _, _, _, _, _, _)
ReadLengthEatsHeader(d, raw_size, data_size, parsed_size, header_size, mult, payload_size) ==
    IF parsed_size + header_size >= raw_size
    THEN [kind |-> "return", val |-> parsed_size + header_size,
          header_size |-> header_size, payload_size |-> payload_size]
    ELSE LET payload_byte == d[parsed_size + header_size + 1]
             new_payload == payload_size + DataBits(payload_byte) * mult
         IN  IF mult > 2097152
             THEN [kind |-> "return", val |-> -1, header_size |-> header_size,
                   payload_size |-> payload_size]
             ELSE IF (header_size + 1) + new_payload > data_size
                     \/ NoContinuation(payload_byte)
                  THEN [kind |-> "break", val |-> 0, header_size |-> header_size + 1,
                        payload_size |-> new_payload]
                  ELSE ReadLengthEatsHeader(d, raw_size, data_size, parsed_size,
                                            header_size + 1, mult * 128, new_payload)

\* ReadLength answering "not full header" with the sentinel.
RECURSIVE ReadLengthPartialIsError(_, _, _, _, _, _, _)
ReadLengthPartialIsError(d, raw_size, data_size, parsed_size, header_size, mult, payload_size) ==
    IF parsed_size + header_size >= raw_size
    THEN [kind |-> "return", val |-> -1, header_size |-> header_size,
          payload_size |-> payload_size]
    ELSE LET payload_byte == d[parsed_size + header_size + 1]
             new_payload == payload_size + DataBits(payload_byte) * mult
         IN  IF mult > 2097152
             THEN [kind |-> "return", val |-> -1, header_size |-> header_size,
                   payload_size |-> payload_size]
             ELSE IF (header_size + 1) + new_payload > data_size
                     \/ NoContinuation(payload_byte)
                  THEN [kind |-> "break", val |-> 0, header_size |-> header_size + 1,
                        payload_size |-> new_payload]
                  ELSE ReadLengthPartialIsError(d, raw_size, data_size, parsed_size,
                                                header_size + 1, mult * 128, new_payload)

\* ReadLength with the overflow test one length byte early (mult >= 2097152).
RECURSIVE ReadLengthThreeBytes(_, _, _, _, _, _, _)
ReadLengthThreeBytes(d, raw_size, data_size, parsed_size, header_size, mult, payload_size) ==
    IF parsed_size + header_size >= raw_size
    THEN [kind |-> "return", val |-> parsed_size, header_size |-> header_size,
          payload_size |-> payload_size]
    ELSE LET payload_byte == d[parsed_size + header_size + 1]
             new_payload == payload_size + DataBits(payload_byte) * mult
         IN  IF mult >= 2097152
             THEN [kind |-> "return", val |-> -1, header_size |-> header_size,
                   payload_size |-> payload_size]
             ELSE IF (header_size + 1) + new_payload > data_size
                     \/ NoContinuation(payload_byte)
                  THEN [kind |-> "break", val |-> 0, header_size |-> header_size + 1,
                        payload_size |-> new_payload]
                  ELSE ReadLengthThreeBytes(d, raw_size, data_size, parsed_size,
                                            header_size + 1, mult * 128, new_payload)

RECURSIVE ReadLength(_, _, _, _, _, _, _)
ReadLength(d, raw_size, data_size, parsed_size, header_size, mult, payload_size) ==
    IF parsed_size + header_size >= raw_size
    THEN [kind |-> "return", val |-> parsed_size, header_size |-> header_size,
          payload_size |-> payload_size]
    ELSE LET payload_byte == d[parsed_size + header_size + 1]
             \* evaluated only when mult <= 2097152: the source adds it before
             \* the test and then discards it by returning -1
             new_payload == payload_size + DataBits(payload_byte) * mult
         IN  IF mult > 2097152
             THEN [kind |-> "return", val |-> -1, header_size |-> header_size,
                   payload_size |-> payload_size]
             ELSE IF (header_size + 1) + new_payload > data_size
                     \/ NoContinuation(payload_byte)
                  THEN [kind |-> "break", val |-> 0, header_size |-> header_size + 1,
                        payload_size |-> new_payload]
                  ELSE ReadLength(d, raw_size, data_size, parsed_size,
                                  header_size + 1, mult * 128, new_payload)

\* ReadFrames collecting the packets and putting them only when the loop
\* ends without the sentinel.
RECURSIVE ReadFramesPutsAtEnd(_, _, _, _, _)
ReadFramesPutsAtEnd(d, raw_size, data_size, parsed_size, frames) ==
    IF data_size < 2
    THEN [ret |-> parsed_size, frames |-> frames]
    ELSE LET h == ReadLength(d, raw_size, data_size, parsed_size, 1, 1, 0)
         IN  IF h.kind = "return"
             THEN [ret |-> h.val, frames |-> IF h.val = -1 THEN <<>> ELSE frames]
             ELSE IF h.header_size + h.payload_size > data_size
                  THEN [ret |-> parsed_size, frames |-> frames]
                  ELSE LET command == d[parsed_size + 1]
                           start == parsed_size + h.header_size
                           end == start + h.payload_size
                       IN  ReadFramesPutsAtEnd(d, raw_size,
                                      data_size - (h.header_size + h.payload_size),
                                      parsed_size + (h.header_size + h.payload_size),
                                      Append(frames, [command |-> command,
                                                      start |-> start, end |-> end]))

\* ReadFrames advancing parsed_size by the payload size alone.
RECURSIVE ReadFramesSkipsHeader(_, _, _, _, _)
ReadFramesSkipsHeader(d, raw_size, data_size, parsed_size, frames) ==
    IF data_size < 2
    THEN [ret |-> parsed_size, frames |-> frames]
    ELSE LET h == ReadLength(d, raw_size, data_size, parsed_size, 1, 1, 0)
         IN  IF h.kind = "return"
             THEN [ret |-> h.val, frames |-> frames]
             ELSE IF h.header_size + h.payload_size > data_size
                  THEN [ret |-> parsed_size, frames |-> frames]
                  ELSE LET command == d[parsed_size + 1]
                           start == parsed_size + h.header_size
                           end == start + h.payload_size
                       IN  ReadFramesSkipsHeader(d, raw_size,
                                      data_size - (h.header_size + h.payload_size),
                                      parsed_size + h.payload_size,
                                      Append(frames, [command |-> command,
                                                      start |-> start, end |-> end]))

\* The outer loop.  frames collects, in order, what the loop hands to
\* put_package: the command byte and the slice bounds of the payload.
RECURSIVE ReadFrames(_, _, _, _, _)
ReadFrames(d, raw_size, data_size, parsed_size, frames) ==
    IF data_size < 2
    THEN [ret |-> parsed_size, frames |-> frames]
    ELSE LET h == ReadLength(d, raw_size, data_size, parsed_size, 1, 1, 0)
         IN  IF h.kind = "return"
             THEN [ret |-> h.val, frames |-> frames]
             ELSE IF h.header_size + h.payload_size > data_size
                  THEN [ret |-> parsed_size, frames |-> frames]
                  ELSE LET command == d[parsed_size + 1]
                           start == parsed_size + h.header_size
                           end == start + h.payload_size
                       IN  ReadFrames(d, raw_size,
                                      data_size - (h.header_size + h.payload_size),
                                      parsed_size + (h.header_size + h.payload_size),
                                      Append(frames, [command |-> command,
                                                      start |-> start, end |-> end]))

\* _read_packet on a buffer of raw_size bytes of which d holds at least the
\* header bytes: the returned value and the frames handed to put_package.
ReadPacketAt(d, raw_size) == ReadFrames(d, raw_size, raw_size, 0, <<>>)

\* data[start:end]
Slice(d, start, end) == SubSeq(d, start + 1, end)

\* _read_packet(data): ret is the returned value, packets the (command,
\* packet) pairs handed to put_package, in call order.
_read_packet(d) ==
    LET r == ReadPacketAt(d, Len(d))
    IN  [ret |-> r.ret,
         packets |-> [i \in 1..Len(r.frames) |->
                        <<r.frames[i].command,
                          Slice(d, r.frames[i].start, r.frames[i].end)>>]]

\* The trim forgotten: the buffer keeps the bytes already decoded.
TrimKeepsAll(b, parsed_size) == b

\* buf = buf[parsed_size:]
Trim(b, parsed_size) == SubSeq(b, parsed_size + 1, Len(b))

\* One pass of the body of the read loop after the read has returned bs:
\* append, decode, and unless the loop is left, trim.
LoopPass(b, bs) ==
    LET nb == b \o bs
        r == _read_packet(nb)
    IN  [ret |-> r.ret, packets |-> r.packets,
         buf |-> IF r.ret = -1 THEN nb ELSE Trim(nb, r.ret)]

(***************************************************************************)
(* The wire format, stated independently of the decoder                    *)
(***************************************************************************)
\* Value of a remaining-length field given as its length bytes.
RECURSIVE VarintValue(_)
VarintValue(lb) ==
    IF lb = <<>> THEN 0
    ELSE DataBits(Head(lb)) + 128 * VarintValue(Tail(lb))

\* A remaining-length field: 1 to 4 bytes, continuation bit on all but the last.
IsLengthField(lb) ==
    /\ Len(lb) \in 1..4
    /\ \A i \in 1..Len(lb) : NoContinuation(lb[i]) <=> (i = Len(lb))

\* A complete frame: command byte, remaining-length field, that many bytes.
IsFrame(f) ==
    \E k \in 1..4 :
        /\ Len(f) >= 1 + k
        /\ IsLengthField(SubSeq(f, 2, 1 + k))
        /\ Len(f) = 1 + k + VarintValue(SubSeq(f, 2, 1 + k))

\* The packet a complete frame carries.
PacketOf(f) ==
    LET k == CHOOSE k \in 1..4 : IsLengthField(SubSeq(f, 2, 1 + k))
    IN  <<f[1], SubSeq(f, 2 + k, Len(f))>>

\* The frames at the front of a byte stream, in wire order: the longest
\* sequence of complete frames the stream starts with.
RECURSIVE WireFrames(_)
WireFrames(s) ==
    IF \E n \in 2..Len(s) : IsFrame(SubSeq(s, 1, n))
    THEN LET n == CHOOSE n \in 2..Len(s) : IsFrame(SubSeq(s, 1, n))
         IN  <<PacketOf(SubSeq(s, 1, n))>> \o WireFrames(SubSeq(s, n + 1, Len(s)))
    ELSE <<>>

RECURSIVE WireFramesSize(_)
WireFramesSize(s) ==
    IF \E n \in 2..Len(s) : IsFrame(SubSeq(s, 1, n))
    THEN LET n == CHOOSE n \in 2..Len(s) : IsFrame(SubSeq(s, 1, n))
         IN  n + WireFramesSize(SubSeq(s, n + 1, Len(s)))
    ELSE 0

\* A concatenation of complete frames.
WellFormed(s) == WireFramesSize(s) = Len(s)

IsPrefix(p, s) == Len(p) <= Len(s) /\ SubSeq(s, 1, Len(p)) = p

\* Size of the first n frames of a byte stream that starts with n or more
\* complete frames: for each, 1 command byte + its length bytes + its payload.
RECURSIVE FirstFramesSize(_, _)
FirstFramesSize(s, n) ==
    IF n = 0 THEN 0
    ELSE LET m == CHOOSE m \in 2..Len(s) : IsFrame(SubSeq(s, 1, m))
         IN  m + FirstFramesSize(SubSeq(s, m + 1, Len(s)), n - 1)

(***************************************************************************)
(* DecSpec: one call of _read_packet on an arbitrary buffer                *)
(***************************************************************************)
\* res before the call
NotCalled == [called |-> FALSE, ret |-> 0, packets |-> <<>>]

\* The protocol object after __init__: no connection, the gate clear, an
\* empty queue, no task.
ProtocolInit ==
    /\ _connection = 0
    /\ _connected = FALSE
    /\ _queue = [id |-> 0, items |-> <<>>]
    /\ _read_loop_future = 0
    /\ tasks = <<>>
    /\ transports = <<>>
    /\ events = <<"none", "none">>
    /\ lost = 0
    /\ sends = <<>>

DecInit ==
    /\ ProtocolInit
    /\ data \in SeqsUpTo(Bytes, MaxLen)
    /\ res = NotCalled
    /\ fed = 0 /\ buf = <<>> /\ out = <<>> /\ last = 0 /\ split = FALSE
    /\ pad = 0

\* parsed_size = self._read_packet(data)
ReadWhole ==
    /\ ~res.called
    /\ res' = [called |-> TRUE] @@ _read_packet(data)
    /\ UNCHANGED <<data, fed, buf, out, last, split, pad>>
    /\ UNCHANGED lifeVars

DecNext == ReadWhole

DecSpec == DecInit /\ [][DecNext]_vars

(***************************************************************************)
(* SizeSpec: one call of _read_packet on a single frame of a given         *)
(* remaining length                                                        *)
(***************************************************************************)
\* The remaining lengths at the edges of the 1, 2, 3 and 4 byte encodings.
BoundaryLengths == {0, 127, 128, 16383, 16384, 2097151, 2097152, 268435455}

\* The command bytes of the frames: packet types 1 to 15, flags 0.
Commands == {16 * i : i \in 1..15}

\* The canonical base-128 encoding of a remaining length: least significant
\* group first, continuation bit on every byte but the last.
RECURSIVE EncodeLength(_)
EncodeLength(n) ==
    IF n < 128 THEN <<n>> ELSE <<128 + (n % 128)>> \o EncodeLength(n \div 128)

SizeInit ==
    /\ ProtocolInit
    /\ pad \in BoundaryLengths
    /\ \E command \in Commands : data = <<command>> \o EncodeLength(pad)
    /\ res = NotCalled
    /\ fed = 0 /\ buf = <<>> /\ out = <<>> /\ last = 0 /\ split = FALSE

\* parsed_size = self._read_packet(data + payload), payload any pad bytes.
\* Each packet is recorded as its command and the length of its payload
\* slice data[start:end].
ReadSized ==
    /\ ~res.called
    /\ LET r == ReadPacketAt(data, Len(data) + pad)
       IN  res' = [called |-> TRUE, ret |-> r.ret,
                   packets |-> [i \in 1..Len(r.frames) |->
                                  <<r.frames[i].command,
                                    r.frames[i].end - r.frames[i].start>>]]
    /\ UNCHANGED <<data, fed, buf, out, last, split, pad>>
    /\ UNCHANGED lifeVars

SizeNext == ReadSized

SizeSpec == SizeInit /\ [][SizeNext]_vars

(***************************************************************************)
(* MalformedSpec: one call of _read_packet on complete frames followed by  *)
(* a frame whose length field runs into a fifth byte                       *)
(***************************************************************************)
\* A command byte, four length bytes with the continuation bit, and one or
\* two bytes more.
MalformedTails ==
    {<<1>> \o lb \o more : lb \in [1..4 -> {128, 129}], more \in {<<0>>, <<1, 2>>}}

MalformedInit ==
    /\ ProtocolInit
    /\ \E s \in {s \in SeqsUpTo(Bytes, MaxStream) : WellFormed(s)} :
          \E m \in MalformedTails : data = s \o m
    /\ res = NotCalled
    /\ fed = 0 /\ buf = <<>> /\ out = <<>> /\ last = 0 /\ split = FALSE
    /\ pad = 0

MalformedNext == ReadWhole

MalformedSpec == MalformedInit /\ [][MalformedNext]_vars

(***************************************************************************)
(* ChunkSpec: a well-formed stream delivered in chunks                     *)
(***************************************************************************)
\* A frame whose remaining length needs two length bytes, between two short
\* frames.
LongStream ==
    <<1, 0>> \o <<2, 128 + (LongPayload % 128), LongPayload \div 128>>
             \o [i \in 1..LongPayload |-> i % 3] \o <<0, 1, 2>>

ChunkInit ==
    /\ ProtocolInit
    /\ data \in {s \in SeqsUpTo(Bytes, MaxStream) : WellFormed(s)} \cup {LongStream}
    /\ res = NotCalled
    /\ fed = 0 /\ buf = <<>> /\ out = <<>> /\ last = 0 /\ split = FALSE
    /\ pad = 0

\* One iteration of the loop body with a read that returned the next k bytes.
Feed(k) ==
    /\ last # -1
    /\ fed + k <= Len(data)
    /\ LET p == LoopPass(buf, SubSeq(data, fed + 1, fed + k))
       IN  /\ buf' = p.buf
           /\ out' = out \o p.packets
           /\ last' = p.ret
           /\ split' = (split \/ (p.ret # -1 /\ p.buf # <<>>))
    /\ fed' = fed + k
    /\ UNCHANGED <<data, res, pad>>
    /\ UNCHANGED lifeVars

ChunkNext == ReadWhole \/ \E k \in 1..Len(data) : Feed(k)

ChunkSpec == ChunkInit /\ [][ChunkNext]_vars

(***************************************************************************)
(* Spec: the protocol object, its read loop tasks and its transports       *)
(***************************************************************************)
\* A connection object as connection_made receives it: not closing, nothing
\* written, nothing read, nothing delivered.  closes counts close() calls,
\* received is every byte its read() has returned, packages every packet its
\* put_package has been given.
NewTransport ==
    [closing |-> FALSE, closes |-> 0, written |-> <<>>, received |-> <<>>,
     packages |-> <<>>]

\* A task as asyncio.ensure_future(self._read_loop()) creates it: not yet run.
\* pc is where the coroutine stands: "start" (not yet run), "wait" (suspended
\* in self._connected.wait()), "woken" (the wait has been released), "read"
\* (suspended in self._connection.read), "done" (the loop was left).  conn is
\* the connection whose read it awaits or awaited last.  exit is "none"
\* while the task has not terminated, else why it terminated: "sentinel",
\* "closing", "reset", "gate" (the while condition was false) or "cancelled"
\* (pc then stays where the CancelledError was thrown).
NewTask == [pc |-> "start", buf |-> <<>>, conn |-> 0, exit |-> "none"]

TaskIds == 1..Len(tasks)
TransportIds == 1..Len(transports)
Live(t) == tasks[t].exit = "none"

\* Bytes returned so far by all transport reads.
RECURSIVE TotalRead(_)
TotalRead(n) == IF n = 0 THEN 0 ELSE Len(transports[n].received) + TotalRead(n - 1)

\* self._connection.put_package(pkg) for each pkg of pkgs, in order: the
\* connection c records the packets and they enter the protocol's queue.
\* Each queue item remembers how many connection_lost calls had been made
\* when it was enqueued.
put_package(tr, c, pkgs) == [tr EXCEPT ![c].packages = @ \o pkgs]
Enqueue(q, pkgs) ==
    [q EXCEPT !.items = @ \o [i \in 1..Len(pkgs) |-> [pkg |-> pkgs[i], epoch |-> lost]]]

\* self._connection.close(): the transport is closing from now on.
close(tr, c) == [tr EXCEPT ![c].closing = TRUE, ![c].closes = @ + 1]

Shift(e) == <<events[2], e>>

\* MQTTProtocol.connection_made(connection), connection a new object, while
\* the protocol has seen fewer than n connection objects.
connection_made_within(n) ==
    /\ Len(transports) < n
    /\ transports' = Append(transports, NewTransport)
    /\ _connection' = Len(transports) + 1
    \* self._connected.set() releases every task suspended in wait()
    /\ _connected' = TRUE
    /\ tasks' = Append([t \in TaskIds |->
                          IF Live(t) /\ tasks[t].pc = "wait"
                          THEN [tasks[t] EXCEPT !.pc = "woken"] ELSE tasks[t]],
                       NewTask)
    /\ _read_loop_future' = Len(tasks) + 1
    /\ events' = Shift("made")
    /\ UNCHANGED <<_queue, lost, sends>>
    /\ UNCHANGED decVars

connection_made == connection_made_within(MaxConns)

\* set_connection doing what BaseMQTTProtocol.connection_made does: it sets
\* the gate as well.
set_connection_sets_gate(c) ==
    /\ c \in 1..(Len(transports) + 1)
    /\ transports' = IF c \in TransportIds THEN transports
                     ELSE Append(transports, NewTransport)
    /\ _connection' = c
    /\ _connected' = TRUE
    /\ events' = IF events[2] = "set" THEN events ELSE Shift("set")
    /\ UNCHANGED <<_queue, _read_loop_future, tasks, lost, sends>>
    /\ UNCHANGED decVars

\* BaseMQTTProtocol.set_connection(conn), conn an object the protocol has seen
\* (c <= Len(transports)) or a new one.  Only self._connection changes: the
\* gate, the task handle and the tasks are left alone.  A run of consecutive
\* set_connection calls is recorded in events once.
set_connection(c) ==
    /\ c \in 1..(Len(transports) + 1)
    /\ transports' = IF c \in TransportIds THEN transports
                     ELSE Append(transports, NewTransport)
    /\ _connection' = c
    /\ events' = IF events[2] = "set" THEN events ELSE Shift("set")
    /\ UNCHANGED <<_connected, _queue, _read_loop_future, tasks, lost, sends>>
    /\ UNCHANGED decVars

\* (MQTTCommands.DISCONNECT, b'')
DisconnectPacket == <<DISCONNECT, <<>>>>

\* Task.cancel(): CancelledError is thrown into the coroutine where it is
\* suspended, and _read_loop does not catch it; a finished task is left alone.
cancel(ts, t) ==
    IF ts[t].exit # "none" THEN ts
    ELSE [ts EXCEPT ![t].exit = "cancelled"]

\* connection_lost without its last statement: the queue is kept.
connection_lost_keeps_queue ==
    /\ _connection # 0
    /\ lost < MaxLost
    /\ _connected' = FALSE
    /\ transports' = put_package(transports, _connection, <<DisconnectPacket>>)
    /\ tasks' = IF _read_loop_future # 0 THEN cancel(tasks, _read_loop_future)
                ELSE tasks
    /\ _read_loop_future' = 0
    /\ lost' = lost + 1
    /\ events' = Shift("lost")
    /\ UNCHANGED <<_connection, sends, _queue>>
    /\ UNCHANGED decVars

\* MQTTProtocol.connection_lost(exc).  Called with self._connection None
\* (only before the first connection, the gate then being clear) it raises at
\* put_package with nothing changed.
connection_lost ==
    /\ _connection # 0
    /\ lost < MaxLost
    /\ _connected' = FALSE
    /\ transports' = put_package(transports, _connection, <<DisconnectPacket>>)
    /\ tasks' = IF _read_loop_future # 0 THEN cancel(tasks, _read_loop_future)
                ELSE tasks
    /\ _read_loop_future' = 0
    /\ _queue' = [id |-> _queue.id + 1, items |-> <<>>]
    /\ lost' = lost + 1
    /\ events' = Shift("lost")
    /\ UNCHANGED <<_connection, sends>>
    /\ UNCHANGED decVars

\* The task arriving at "while self._connected.is_set()": it calls
\* self.read, which suspends it in self._connection.read, or leaves the loop.
AtLoopHead(t, b) ==
    IF _connected
    THEN [pc |-> "read", buf |-> b, conn |-> _connection, exit |-> "none"]
    ELSE [pc |-> "done", buf |-> b, conn |-> tasks[t].conn, exit |-> "gate"]

\* The event loop runs task t up to its next suspension: from its creation
\* through "await self._connected.wait()", or from a released wait.
RunTask(t) ==
    /\ t \in TaskIds
    /\ Live(t)
    /\ tasks[t].pc \in {"start", "woken"}
    /\ tasks' = [tasks EXCEPT ![t] =
                    IF tasks[t].pc = "start" /\ ~_connected
                    THEN [tasks[t] EXCEPT !.pc = "wait"]
                    ELSE AtLoopHead(t, <<>>)]
    /\ UNCHANGED <<_connection, _connected, _queue, _read_loop_future,
                   transports, events, lost, sends>>
    /\ UNCHANGED decVars

\* ReadReturn with is_closing() asked before the decode pass instead of
\* after it: on a closing transport the bytes just read are not decoded.
ReadReturnChecksClosingFirst(t, bs) ==
    /\ t \in TaskIds
    /\ Live(t)
    /\ tasks[t].pc = "read"
    /\ TotalRead(Len(transports)) + Len(bs) <= MaxWire
    /\ LET got == [transports EXCEPT ![tasks[t].conn].received = @ \o bs]
       IN  IF bs = <<>> /\ ~got[_connection].closing
           THEN /\ transports' = close(got, _connection)
                /\ tasks' = [tasks EXCEPT ![t].pc = "done", ![t].exit = "reset"]
                /\ UNCHANGED _queue
           ELSE IF got[_connection].closing
           THEN /\ transports' = got
                /\ tasks' = [tasks EXCEPT ![t].pc = "done", ![t].exit = "closing",
                                          ![t].buf = tasks[t].buf \o bs]
                /\ UNCHANGED _queue
           ELSE LET p == LoopPass(tasks[t].buf, bs)
                IN  /\ transports' = put_package(got, _connection, p.packets)
                    /\ _queue' = Enqueue(_queue, p.packets)
                    /\ tasks' = [tasks EXCEPT ![t] =
                                   IF p.ret = -1
                                   THEN [@ EXCEPT !.pc = "done", !.exit = "sentinel",
                                                  !.buf = p.buf]
                                   ELSE AtLoopHead(t, p.buf)]
    /\ UNCHANGED <<_connection, _connected, _read_loop_future, events, lost, sends>>
    /\ UNCHANGED decVars

\* The read task t is suspended in returns bs; the task runs to its next
\* suspension or to its end: BaseMQTTProtocol.read after the await, then the
\* rest of the loop body of _read_loop.  Where the loop is left by the break
\* of line 171, buf is not trimmed.
ReadReturn(t, bs) ==
    /\ t \in TaskIds
    /\ Live(t)
    /\ tasks[t].pc = "read"
    /\ TotalRead(Len(transports)) + Len(bs) <= MaxWire
    /\ LET got == [transports EXCEPT ![tasks[t].conn].received = @ \o bs]
       IN  IF bs = <<>> /\ ~got[_connection].closing
           THEN \* close it manually, raise ConnectionResetError, caught: break
                /\ transports' = close(got, _connection)
                /\ tasks' = [tasks EXCEPT ![t].pc = "done", ![t].exit = "reset"]
                /\ UNCHANGED _queue
           ELSE LET p == LoopPass(tasks[t].buf, bs)
                IN  /\ transports' = put_package(got, _connection, p.packets)
                    /\ _queue' = Enqueue(_queue, p.packets)
                    /\ tasks' = [tasks EXCEPT ![t] =
                                   IF p.ret = -1
                                   THEN [@ EXCEPT !.pc = "done", !.exit = "sentinel",
                                                  !.buf = p.buf]
                                   ELSE IF got[_connection].closing
                                   THEN [@ EXCEPT !.pc = "done", !.exit = "closing",
                                                  !.buf = tasks[t].buf \o bs]
                                   ELSE AtLoopHead(t, p.buf)]
    /\ UNCHANGED <<_connection, _connected, _read_loop_future, events, lost, sends>>
    /\ UNCHANGED decVars

\* The transport of the current connection starts closing: the peer closed,
\* or close() was called on it outside the protocol.  (is_closing() is only
\* ever asked of the current connection.)
TransportClosing ==
    /\ _connection # 0
    /\ ~transports[_connection].closing
    /\ transports' = [transports EXCEPT ![_connection].closing = TRUE]
    /\ UNCHANGED <<_connection, _connected, _queue, _read_loop_future, tasks,
                   events, lost, sends>>
    /\ UNCHANGED decVars

\* write_data with the test of is_closing() left out.
write_data_unchecked(pkg) ==
    transports' = [transports EXCEPT ![_connection].written = Append(@, pkg)]

\* BaseMQTTProtocol.write_data(data)
write_data(pkg) ==
    IF ~transports[_connection].closing
    THEN transports' = [transports EXCEPT ![_connection].written = Append(@, pkg)]
    ELSE UNCHANGED transports    \* only a warning is logged

\* The bytes the packet builder returns for an operation; arg is the command
\* of a simple command packet and 0 otherwise.
build_package(op, arg) == <<op, arg>>

\* The builders that return "mid, pkg": SubscribePacket, UnsubscribePacket
\* and PublishPacket.
AllocatesMid(op) == op \in {"subscribe", "unsubscribe", "publish"}

\* The message identifier the builder allocates: the identifiers are handed
\* out in turn, starting at 1.
AllocatedMid == 1 + Cardinality({i \in 1..Len(sends) : AllocatesMid(sends[i].op)})

\* What a send operation returns, as a pair: mid 0 stands for "no
\* identifier in the returned value", pkg <<>> for "no bytes in it"; None is
\* both.
None == [mid |-> 0, pkg |-> <<>>]

\* Every operation returning only what subscribe returns: the identifier
\* where one was allocated, else nothing.
ReturnedMidOnly(op, mid, pkg) ==
    IF AllocatesMid(op) THEN [mid |-> mid, pkg |-> <<>>] ELSE None

\* The value after the return statement of each send operation.
Returned(op, mid, pkg) ==
    CASE op \in {"subscribe", "unsubscribe"} -> [mid |-> mid, pkg |-> <<>>]   \* return mid
      [] op = "publish"                       -> [mid |-> mid, pkg |-> pkg]    \* return mid, pkg
      [] op = "disconnect"                    -> [mid |-> 0, pkg |-> pkg]      \* return pkg
      [] OTHER                                -> None                          \* no return statement

\* A send operation: build the bytes, hand them to write_data, return.
\* sends keeps the call, the connection it was made on, what is_closing()
\* said, the identifier the builder allocated (0 if none) and the value
\* returned to the caller.
Send(op, arg) ==
    /\ _connection # 0
    /\ Len(sends) < MaxSends
    /\ write_data(build_package(op, arg))
    /\ LET mid == IF AllocatesMid(op) THEN AllocatedMid ELSE 0
       IN  sends' = Append(sends,
                       [op |-> op, pkg |-> build_package(op, arg), conn |-> _connection,
                        closing |-> transports[_connection].closing, mid |-> mid,
                        ret |-> Returned(op, mid, build_package(op, arg))])
    /\ UNCHANGED <<_connection, _connected, _queue, _read_loop_future, tasks,
                   events, lost>>
    /\ UNCHANGED decVars

\* MQTTCommands.PINGREQ; the commands send_simple_command_packet is given.
PINGREQ == 192
SimpleCommands == {PINGREQ, DISCONNECT}

send_auth_package == Send("auth", 0)
send_subscribe_packet == Send("subscribe", 0)
send_unsubscribe_packet == Send("unsubscribe", 0)
send_simple_command_packet(cmd) == Send("simple", cmd)
send_ping_request == send_simple_command_packet(PINGREQ)
send_publish == Send("publish", 0)
send_disconnect == Send("disconnect", 0)
send_command_with_mid == Send("command_with_mid", 0)

Init ==
    /\ ProtocolInit
    /\ data = <<>> /\ res = NotCalled
    /\ fed = 0 /\ buf = <<>> /\ out = <<>> /\ last = 0 /\ split = FALSE
    /\ pad = 0

TaskStep(t) == RunTask(t) \/ \E bs \in SeqsUpTo(WireBytes, MaxChunk) : ReadReturn(t, bs)

Next ==
    \/ connection_made
    \/ connection_lost
    \/ \E t \in 1..MaxConns : RunTask(t)
    \/ \E t \in 1..MaxConns : \E bs \in SeqsUpTo(WireBytes, MaxChunk) : ReadReturn(t, bs)
    \/ TransportClosing

Spec == Init /\ [][Next]_vars

\* The event loop runs every task that can run; nothing obliges the caller
\* to call connection_made or connection_lost, or a transport to close.
FairSpec == Spec /\ \A t \in 1..MaxConns : WF_vars(TaskStep(t))

\* SendSpec: the send side.  The send operations only ask the current
\* connection whether it is closing and write to it, so the read loop tasks
\* are left where connection_made created them.
SendNext ==
    \/ connection_made
    \/ connection_lost
    \/ TransportClosing
    \/ send_auth_package
    \/ send_subscribe_packet
    \/ send_unsubscribe_packet
    \/ \E cmd \in SimpleCommands : send_simple_command_packet(cmd)
    \/ send_ping_request
    \/ send_publish
    \/ send_disconnect
    \/ send_command_with_mid

SendSpec == Init /\ [][SendNext]_vars

\* GateSpec: the lifecycle calls with set_connection among them, on up to
\* MaxGateConns connection objects, so that a task suspended in
\* self._connected.wait() is released by a later connection_made.  Reads
\* return nothing or one empty-payload frame, MaxGateWire bytes in total.
MaxGateConns == 3
MaxGateWire == 2
GateReads == {<<>>, <<0, 0>>}

GateNext ==
    \/ connection_made_within(MaxGateConns)
    \/ connection_lost
    \/ \E c \in 1..MaxGateConns : set_connection(c)
    \/ \E t \in 1..MaxGateConns : RunTask(t)
    \/ \E t \in 1..MaxGateConns : \E bs \in GateReads :
          /\ TotalRead(Len(transports)) + Len(bs) <= MaxGateWire
          /\ ReadReturn(t, bs)

GateSpec == Init /\ [][GateNext]_vars

(***************************************************************************)
(* Properties of the decoder                                               *)
(***************************************************************************)
\* C1: once a stream of complete, well-formed packets has been delivered in
\* chunks (any split, the buffer trimmed to buf[consumed:] after each pass),
\* the packets emitted by the passes are, in order, exactly the packets one
\* _read_packet call on the whole stream emits.
C1_ChunkedEqualsWhole ==
    (fed = Len(data) /\ res.called) => out = res.packets

\* A stream of two or more packets delivered in chunks that split a frame,
\* and decoded whole.
C1_Witness ==
    /\ fed = Len(data) /\ res.called
    /\ split
    /\ Len(res.packets) >= 2
    /\ \E i \in 1..Len(res.packets) : Len(res.packets[i][2]) >= 1

\* Size of the complete frames at the front of data: where the next
\* undecoded frame starts (0-based).
NextFrameAt == WireFramesSize(data)

\* The next undecoded frame has a remaining-length field of 5 or more bytes:
\* four length bytes with the continuation bit and a fifth length byte.
NeedsFiveLengthBytes ==
    /\ Len(data) >= NextFrameAt + 6
    /\ \A i \in 2..5 : ~NoContinuation(data[NextFrameAt + i])

\* C2: _read_packet returns -1 for every buffer whose next undecoded frame
\* has a remaining-length field needing 5 or more bytes, whatever the data
\* bits of the length bytes and whatever follows them.
C2_FiveLengthBytesGiveSentinel ==
    (res.called /\ NeedsFiveLengthBytes) => res.ret = -1

\* A partial header: a command byte alone, or a command byte and up to four
\* length bytes that all have the continuation bit.
IsPartialHeader(h) ==
    /\ Len(h) \in 1..5
    /\ \A i \in 2..Len(h) : ~NoContinuation(h[i])

\* data is one complete frame of n bytes followed by a partial header.
FrameThenPartialHeader(n) ==
    /\ n \in 2..(Len(data) - 1)
    /\ IsFrame(SubSeq(data, 1, n))
    /\ IsPartialHeader(SubSeq(data, n + 1, Len(data)))

\* C3: for a buffer made of one complete packet followed by a partial header,
\* _read_packet emits exactly that packet and returns the size of its frame.
C3_PacketThenPartialHeader ==
    \A n \in 2..MaxLen :
        (res.called /\ FrameThenPartialHeader(n)) =>
            /\ res.ret = n
            /\ res.packets = <<PacketOf(SubSeq(data, 1, n))>>

\* A packet with a payload, followed by a command byte and three length bytes
\* with the continuation bit, has been decoded.
C3_Witness ==
    /\ res.called
    /\ \E n \in 3..MaxLen : FrameThenPartialHeader(n) /\ Len(data) = n + 4

\* b holds a complete header (a length field of 1 to 4 bytes) and fewer
\* payload bytes than the header announces.
IsPartialPayload(b) ==
    \E k \in 1..4 :
        /\ Len(b) >= 1 + k
        /\ IsLengthField(SubSeq(b, 2, 1 + k))
        /\ Len(b) < 1 + k + VarintValue(SubSeq(b, 2, 1 + k))

\* The accumulation buffer after the pass on data: buf[parsed_size:].
Trimmed == Trim(data, res.ret)

\* C14: after a decode pass that does not report the sentinel, and the trim
\* that follows it, the accumulation buffer holds no complete frame: it is
\* empty, a partial header or a header with a part of its payload.
C14_TrimmedBufferIsPartial ==
    (res.called /\ res.ret # -1) =>
        /\ WireFrames(Trimmed) = <<>>
        /\ \/ Trimmed = <<>>
           \/ IsPartialHeader(Trimmed)
           \/ IsPartialPayload(Trimmed)

\* C15: the value _read_packet returns is the sentinel -1, or the sum of the
\* frame sizes of exactly the packets put during the call (these being the
\* frames the buffer starts with), and then lies between 0 and len(buffer);
\* on a buffer of fewer than 2 bytes it is 0 and no packet is put.
C15_ReturnIsSizeOfEmitted ==
    res.called =>
        /\ \/ res.ret = -1
           \/ /\ IsPrefix(res.packets, WireFrames(data))
              /\ res.ret = FirstFramesSize(data, Len(res.packets))
              /\ 0 <= res.ret /\ res.ret <= Len(data)
        /\ Len(data) < 2 => (res.ret = 0 /\ res.packets = <<>>)

\* Two packets, one of them with a payload, were put and bytes of a third
\* frame are left over.
C15_Witness ==
    /\ res.called
    /\ Len(res.packets) = 2
    /\ \E i \in 1..2 : Len(res.packets[i][2]) >= 1
    /\ 0 < res.ret /\ res.ret < Len(data)

\* The bytes of data after its complete frames.
Rest == SubSeq(data, NextFrameAt + 1, Len(data))

\* data is a prefix of a concatenation of frames with length fields of 1 to
\* 4 bytes: complete frames, then nothing, or the first bytes of one more
\* frame (a command byte and up to three length bytes with the continuation
\* bit, or a complete header and a part of its payload).
IsStreamPrefix ==
    \/ Rest = <<>>
    \/ IsPartialHeader(Rest) /\ Len(Rest) <= 4
    \/ IsPartialPayload(Rest)

\* C19: on a buffer that is a prefix, of any length, of a concatenation of
\* well-formed frames, _read_packet returns a consumed count of 0 or more,
\* never the sentinel.
C19_IncompleteIsNotMalformed ==
    (res.called /\ IsStreamPrefix) => res.ret >= 0

\* A complete frame followed by a frame with a 4-byte length field and a
\* part of its payload has been decoded.
C19_Witness ==
    /\ res.called
    /\ Len(res.packets) >= 1
    /\ Len(Rest) >= 5
    /\ IsLengthField(SubSeq(Rest, 2, 5))
    /\ IsPartialPayload(Rest)

\* C20: when _read_packet returns the sentinel, the complete frames that
\* precede the malformed length field have been put during that call, in
\* wire order; nothing of the malformed frame or after it is put.
C20_SentinelKeepsEarlierPackets ==
    (res.called /\ res.ret = -1) => res.packets = WireFrames(data)

\* The sentinel was returned for a buffer with two or more complete frames,
\* one with a payload, ahead of the malformed length field.
C20_Witness ==
    /\ res.called /\ res.ret = -1
    /\ Len(res.packets) >= 2
    /\ \E i \in 1..Len(res.packets) : Len(res.packets[i][2]) >= 1

\* C12: a buffer made of a command byte, the canonical encoding (1 to 4
\* bytes) of a remaining length L of BoundaryLengths and L payload bytes is
\* decoded into exactly one packet, of that command and with a payload of L
\* bytes; the call returns 1 + (number of length bytes) + L, not the
\* sentinel; and the length bytes, read as a base-128 number, give L back.
C12_BoundaryLengthsDecode ==
    /\ Len(data) - 1 \in 1..4
    /\ IsLengthField(Tail(data))
    /\ VarintValue(Tail(data)) = pad
    /\ res.called =>
          /\ res.ret = 1 + (Len(data) - 1) + pad
          /\ res.ret # -1
          /\ res.packets = << <<data[1], pad>> >>

\* The maximal 4-byte encoding FF FF FF 7F has been decoded.
C12_Witness ==
    /\ res.called
    /\ Tail(data) = <<255, 255, 255, 127>>
    /\ pad = 268435455

(***************************************************************************)
(* Properties of the protocol object                                       *)
(***************************************************************************)
Last(q) == q[Len(q)]

\* How many DISCONNECT pseudo-packets connection c has been given.  (No
\* byte of WireBytes is the DISCONNECT command, so none is a decoded packet.)
DisconnectCount(c) ==
    Len(SelectSeq(transports[c].packages, LAMBDA pk : pk = DisconnectPacket))

\* The decoded packets connection c has been given, in order.
Decoded(c) ==
    SelectSeq(transports[c].packages, LAMBDA pk : pk # DisconnectPacket)

\* read() has met a zero-byte read on the not-closing connection c (it calls
\* close() there and nowhere else).
ResetOn(c) == c \in TransportIds /\ transports[c].closes > 0

\* C4: when a read of the read loop returns zero bytes while the transport is
\* not closing, the loop terminates and a DISCONNECT pseudo-packet eventually
\* appears on the inbound side, exactly once for that connection.
C4_ResetDeliversOneDisconnect ==
    \A c \in 1..MaxConns :
        [](ResetOn(c) => <>[](c \in TransportIds /\ DisconnectCount(c) = 1))

\* Task t has left its loop because _read_packet returned -1.
SentinelSeen(t) == t \in TaskIds /\ tasks[t].exit = "sentinel"

\* C5: when _read_packet reports the sentinel inside the read loop, the loop
\* terminates and, with no further event from outside, eventually the gate is
\* clear and a DISCONNECT pseudo-packet has been delivered.
C5_SentinelIsConnectionLoss ==
    \A t \in 1..MaxConns :
        SentinelSeen(t) ~>
            (~_connected /\ \E c \in TransportIds : DisconnectCount(c) >= 1)

\* C6: on every connection, the decoded packets handed to the inbound side
\* are a prefix of the frames in the bytes read from that connection's
\* transport, in wire order.
C6_DeliveredIsPrefixOfWire ==
    \A c \in TransportIds :
        IsPrefix(Decoded(c), WireFrames(transports[c].received))

\* C7: the queue the protocol holds was created by the latest
\* connection_lost and holds nothing enqueued before it; in particular after
\* connection_lost followed by connection_made it holds no packet of the
\* prior connection.
C7_QueueFreshAfterLoss ==
    /\ _queue.id = lost
    /\ \A i \in 1..Len(_queue.items) : _queue.items[i].epoch = lost

\* connection_lost then connection_made: packets had been delivered on the
\* first connection, and the queue now holds a packet of the second.
C7_Witness ==
    /\ events = <<"lost", "made">>
    /\ Len(transports) = 2
    /\ Decoded(1) # <<>>
    /\ _queue.items # <<>>

\* The writes the sends made on connection c while it was not closing.
RECURSIVE Accepted(_, _)
Accepted(log, c) ==
    IF log = <<>> THEN <<>>
    ELSE IF Head(log).conn = c /\ ~Head(log).closing
         THEN <<Head(log).pkg>> \o Accepted(Tail(log), c)
         ELSE Accepted(Tail(log), c)

\* C8: a send made while the transport is closing writes nothing, then or
\* later; a send made while it is not closing writes its bytes once: the
\* writes on each transport are the sends made on it while not closing, in
\* call order.
C8_WritesAreSendsWhileOpen ==
    \A c \in TransportIds : transports[c].written = Accepted(sends, c)

\* A send was written, then a send on the same transport, closing by then,
\* was dropped.
C8_Witness ==
    /\ Len(sends) = 2
    /\ ~sends[1].closing /\ sends[2].closing
    /\ sends[1].conn = sends[2].conn
    /\ transports[sends[1].conn].written = <<sends[1].pkg>>

\* C9: at most one read loop task has not terminated, and it is the one
\* _read_loop_future references.
C9_AtMostOneLiveTask ==
    /\ Cardinality({t \in TaskIds : Live(t)}) <= 1
    /\ \A t \in TaskIds : Live(t) => _read_loop_future = t

\* Task t was cancelled while suspended in a transport read.  (Task t is
\* created by the connection_made that receives connection t.)
CancelledInRead(t) ==
    t \in TaskIds /\ tasks[t].exit = "cancelled" /\ tasks[t].pc = "read"

\* C10: when connection_lost runs while the read loop task is suspended in
\* a read, the DISCONNECT pseudo-packet is the last packet delivered for that
\* connection, and when connection_lost returns the gate is clear and the
\* task handle is None.
C10_CancelInReadEndsDelivery ==
    /\ \A t \in TaskIds :
          CancelledInRead(t) =>
              /\ transports[t].packages # <<>>
              /\ Last(transports[t].packages) = DisconnectPacket
    /\ events[2] = "lost" => (~_connected /\ _read_loop_future = 0)

\* C13 as stated: each send operation returns the message identifier the
\* builder allocated, and only that, for subscribe, unsubscribe and publish,
\* and returns nothing for simple commands (ping) and for disconnect, whether
\* or not the write was dropped.
C13_SendsReturnMidOrNothing ==
    \A i \in 1..Len(sends) :
        /\ AllocatesMid(sends[i].op) => sends[i].ret = [mid |-> sends[i].mid, pkg |-> <<>>]
        /\ sends[i].op \in {"simple", "disconnect"} => sends[i].ret = None

\* C13 amended: send_subscribe_packet and send_unsubscribe_packet return the
\* message identifier the builder allocated; send_publish returns the pair of
\* that identifier and the built bytes; send_disconnect returns the built
\* bytes; the simple commands (ping) return nothing; all of it whether or
\* not the write was dropped because the transport was closing.
C13_SendsReturn ==
    \A i \in 1..Len(sends) :
        /\ sends[i].op \in {"subscribe", "unsubscribe"} =>
              (sends[i].mid >= 1 /\ sends[i].ret = [mid |-> sends[i].mid, pkg |-> <<>>])
        /\ sends[i].op = "publish" =>
              (sends[i].mid >= 1 /\ sends[i].ret = [mid |-> sends[i].mid, pkg |-> sends[i].pkg])
        /\ sends[i].op = "disconnect" => sends[i].ret = [mid |-> 0, pkg |-> sends[i].pkg]
        /\ sends[i].op = "simple" => sends[i].ret = None

\* A publish written to an open transport, then a subscribe dropped by the
\* same transport, closing by then: the second call returned the second
\* identifier.
C13_Witness ==
    /\ Len(sends) = 2
    /\ sends[1].op = "publish" /\ ~sends[1].closing
    /\ sends[2].op = "subscribe" /\ sends[2].closing /\ sends[2].ret.mid = 2
    /\ sends[1].conn = sends[2].conn
    /\ transports[sends[1].conn].written = <<sends[1].pkg>>

(***************************************************************************)
(* Properties of the read loop                                             *)
(***************************************************************************)
\* A step in which the read task t was suspended in returns zero bytes: the
\* task moves on (and is not cancelled) while its transport has handed over
\* no further byte.
ZeroRead(t) ==
    /\ Live(t) /\ tasks[t].pc = "read"
    /\ tasks'[t] # tasks[t] /\ tasks'[t].exit # "cancelled"
    /\ transports'[tasks[t].conn].received = transports[tasks[t].conn].received

\* close() calls made on transport c in the step.
ClosedInStep(c) == transports'[c].closes - transports[c].closes

\* C16: read() closes the transport and raises the reset exactly when the
\* transport read returned zero bytes and that transport is not closing;
\* close() is then called once and the task ends normally, the reset caught
\* in the loop.  A zero-byte read on a closing transport calls no close(),
\* raises nothing, and the loop ends through its closing check.
C16_ResetIffZeroReadWhileOpen ==
    [][/\ \A t \in TaskIds :
            /\ (ZeroRead(t) /\ ~transports[tasks[t].conn].closing) =>
                  /\ tasks'[t].pc = "done" /\ tasks'[t].exit = "reset"
                  /\ ClosedInStep(tasks[t].conn) = 1
                  /\ transports'[tasks[t].conn].closing
            /\ (ZeroRead(t) /\ transports[tasks[t].conn].closing) =>
                  /\ tasks'[t].pc = "done" /\ tasks'[t].exit = "closing"
                  /\ \A c \in TransportIds : ClosedInStep(c) = 0
            /\ (Live(t) /\ tasks'[t].exit = "reset") =>
                  (ZeroRead(t) /\ ~transports[tasks[t].conn].closing)
       /\ \A c \in TransportIds :
            ClosedInStep(c) # 0 =>
                /\ transports[c].closes = 0
                /\ \E t \in TaskIds : ZeroRead(t) /\ tasks[t].conn = c
                                        /\ ~transports[c].closing
      ]_vars

IsSuffix(p, q) == Len(p) <= Len(q) /\ SubSeq(q, Len(q) - Len(p) + 1, Len(q)) = p

\* The decoded packets among pkgs.
DecodedOf(pkgs) == SelectSeq(pkgs, LAMBDA pk : pk # DisconnectPacket)

\* The task created by the latest connection_made has terminated.
LoopTerminated == tasks # <<>> /\ ~Live(Len(tasks))

\* C17: once the read loop task has terminated, whatever the reason, every
\* step up to the next connection_made reads nothing from any transport and
\* delivers no decoded packet; the task that connection_made creates starts
\* with an empty accumulation buffer, and the buffer of a task awaiting a
\* read holds only bytes read from the connection it is reading.
C17_TerminatedLoopStaysSilent ==
    [][/\ (LoopTerminated /\ Len(tasks') = Len(tasks)) =>
            \A c \in TransportIds :
                /\ transports'[c].received = transports[c].received
                /\ DecodedOf(transports'[c].packages) = DecodedOf(transports[c].packages)
       /\ \A t \in 1..Len(tasks') :
            /\ t > Len(tasks) => tasks'[t].buf = <<>>
            /\ (tasks'[t].exit = "none" /\ tasks'[t].pc = "read") =>
                  IsSuffix(tasks'[t].buf, transports'[tasks'[t].conn].received)
      ]_vars

\* The bytes the transport of task t hands over in the step.
BytesRead(t) ==
    SubSeq(transports'[tasks[t].conn].received,
           Len(transports[tasks[t].conn].received) + 1,
           Len(transports'[tasks[t].conn].received))

\* A step in which the read task t was suspended in returns bytes and
\* self._connection.is_closing() then answers true.
ReadThenClosing(t) ==
    /\ Live(t) /\ tasks[t].pc = "read"
    /\ tasks'[t] # tasks[t] /\ tasks'[t].exit # "cancelled"
    /\ BytesRead(t) # <<>>
    /\ transports[_connection].closing

\* C18: when a read returns bytes and the transport then reports closing,
\* the loop has run one decode pass on the buffer with those bytes and
\* delivered every complete packet of it, in wire order, before it stops,
\* and it issues no further read.
C18_ClosingPassStillDelivers ==
    [][\A t \in TaskIds :
          ReadThenClosing(t) =>
              /\ DecodedOf(transports'[_connection].packages) =
                    DecodedOf(transports[_connection].packages)
                        \o WireFrames(tasks[t].buf \o BytesRead(t))
              /\ tasks'[t].pc = "done"
              /\ tasks'[t].exit \in {"closing", "sentinel"}
      ]_vars

\* A task has left its loop on the closing check, after a pass that
\* delivered two packets out of what the last read brought.
C18_Witness ==
    \E t \in TaskIds :
        /\ tasks[t].exit = "closing"
        /\ Len(WireFrames(tasks[t].buf)) >= 2
        /\ Len(Decoded(tasks[t].conn)) >= 2

(***************************************************************************)
(* Properties of the connection gate                                       *)
(***************************************************************************)
\* The latest call that was connection_made or connection_lost ("none"
\* before the first).
LastGateCall == IF events[2] = "set" THEN events[1] ELSE events[2]

GateFollowsLifecycle == _connected <=> (LastGateCall = "made")

\* Task record tk stands in the Start state: not yet run, or suspended in
\* self._connected.wait().
InStart(tk) == tk.pc \in {"start", "wait"}

\* A step in which a task is released from Start, or a task issues a read,
\* is taken with the gate set.
StartAndReadNeedGate ==
    \A t \in TaskIds :
        /\ (InStart(tasks[t]) /\ ~InStart(tasks'[t])) => _connected'
        /\ (tasks[t].pc # "read" /\ tasks'[t].pc = "read") => (_connected /\ _connected')

\* C11: the gate is clear initially; in every reachable state it is set
\* exactly when the latest of the connection_made and connection_lost calls
\* was connection_made, set_connection changing nothing of it; and a read
\* loop task is released from its Start state, and issues a read, only while
\* the gate is set.
C11_GateFollowsLifecycle ==
    /\ ~_connected /\ GateFollowsLifecycle
    /\ [][GateFollowsLifecycle' /\ StartAndReadNeedGate]_vars

\* A task that was suspended in wait() has been released by connection_made,
\* and set_connection has been called since: the gate is still set.
C11_Witness ==
    /\ events = <<"made", "set">>
    /\ _connected
    /\ \E t \in TaskIds : Live(t) /\ tasks[t].pc = "woken"

====
